---- MODULE Spec2Model ----
(***************************************************************************)
(* A model of the invoice_manager document-to-invoice pipeline:            *)
(*   - ocr_tool_anthropic.py  (the driver main.py imports),                *)
(*   - ocr_tool.py            (the OpenAI-backed near-duplicate),          *)
(*   - main.set_invoice       (sentinel stripping, payment-method default, *)
(*                             path read, hand-over to create_invoice).    *)
(*   - main.get_message / get_paths  (one poll of the mailbox),            *)
(*   - crm_request.get_company       (company lookup of create_invoice).   *)
(* Text is a sequence of one-character strings; a JSON value is a tagged   *)
(* record; a JSON object / Python dict is a function from keys to values.  *)
(***************************************************************************)
EXTENDS Integers, Sequences, FiniteSets, TLC

VARIABLES
    driver,             \* "anthropic" (ocr_tool_anthropic) or "openai" (ocr_tool)
    ANTHROPIC_API_KEY,  \* data.ANTHROPIC_API_KEY is set (TRUE) or missing (FALSE)
    paths_list,         \* get_payload's argument
    pc,                 \* position of the single flow of control
    i,                  \* 1-based index of the document the for loop is at
    mime_type,          \* detected MIME type of the current document
    text,               \* transcript of the current document
    final_data,         \* parsed backend object of the current document
    result,             \* get_payload's local list of records
    origin,             \* history: for each record of result, its input index
    outcome,            \* history: what became of each document visited so far
    sent,               \* history: input indexes a backend request was sent for
    returned,           \* the list get_payload returned (<<>> before / on raise)
    exc,                \* the exception that left the running function, or "none"
    log,                \* history: the failures get_payload logged at error level
    payload_list,       \* set_invoice's payload_list (dicts mutated in place)
    j,                  \* 1-based index of the payload set_invoice is at
    paths_for_invoice,  \* set_invoice's local of that name
    submitted,          \* history: the records passed to create_invoice
    raw_text,           \* clean_text study: the input string
    once,               \* clean_text(raw_text)
    twice,              \* clean_text(clean_text(raw_text))
    pdf,                \* extract_text_from_pdf study: the pages of the open PDF
    page_num,           \* 1-based index of the page the loop is at
    pdf_text,           \* extract_text_from_pdf's local text
    search_status,      \* get_message: status of mail.search
    inbox,              \* get_message: the messages the search matched, by number
    num,                \* 1-based index of the message the fetch loop is at
    message,            \* get_message's local of that name (NoMessage = None)
    flagged,            \* message numbers flagged \Deleted
    expunged,           \* message numbers mail.expunge() removed from the inbox
    disk,               \* files written under attachments/, each with its message
    file_paths,         \* what get_message returned (NotReturned before)
    companies,          \* get_company: what get_entities("Account") returned
    name,               \* get_company's argument name
    sic,                \* get_company's argument sic
    dic,                \* get_company's argument dic
    company_idx,        \* 1-based index of the company the loop is at
    company             \* what get_company returned (NotReturned before)

vars == << driver, ANTHROPIC_API_KEY, paths_list, pc, i, mime_type, text,
           final_data, result, origin, outcome, sent, returned, exc,
           payload_list, j, paths_for_invoice, submitted,
           log, raw_text, once, twice, pdf, page_num, pdf_text,
           search_status, inbox, num, message, flagged, expunged, disk,
           file_paths, companies, name, sic, dic, company_idx, company >>

pipelineVars == << ANTHROPIC_API_KEY, paths_list, i, mime_type, text,
                   final_data, result, origin, outcome, sent, returned, exc,
                   log, payload_list, j, paths_for_invoice, submitted >>
textVars == << raw_text, once, twice >>
pdfVars == << pdf, page_num, pdf_text >>
mailVars == << search_status, inbox, num, message, flagged, expunged, disk,
              file_paths >>
companyVars == << companies, name, sic, dic, company_idx, company >>

(***************************************************************************)
(* Bounds of the model.                                                    *)
(***************************************************************************)
MaxDocs == 2        \* longest paths_list
MaxTextLen == 5     \* longest input string of the clean_text study
MaxPages == 2       \* most pages of a PDF
MaxMessages == 2    \* most messages the mailbox search matches in one poll
MaxParts == 2       \* most parts of one message
MaxCompanies == 2   \* most Account entities the CRM returns

Drivers == {"anthropic", "openai"}

(***************************************************************************)
(* Characters and text.                                                    *)
(***************************************************************************)
NUL == "\\x00"      \* a character that is neither whitespace nor printable
Whitespace == {" ", "\n"}                 \* what \s matches / str.strip removes
Chars == {" ", "\n", "|", "l", "O", "a", NUL}

\* str.isprintable() of one character: the space is printable, other
\* whitespace and control characters are not.
IsPrintable(c) == c \notin {"\n", NUL}

RECURSIVE CollapseWs(_)
\* re.sub(r"\s+", " ", text)
CollapseWs(t) ==
    IF t = << >> THEN << >>
    ELSE IF Head(t) \in Whitespace
         THEN IF Len(t) > 1 /\ t[2] \in Whitespace
              THEN CollapseWs(Tail(t))
              ELSE << " " >> \o CollapseWs(Tail(t))
         ELSE << Head(t) >> \o CollapseWs(Tail(t))

RECURSIVE LStrip(_)
LStrip(t) ==
    IF t # << >> /\ Head(t) \in Whitespace THEN LStrip(Tail(t)) ELSE t

RECURSIVE RStrip(_)
RStrip(t) ==
    IF t # << >> /\ t[Len(t)] \in Whitespace
    THEN RStrip(SubSeq(t, 1, Len(t) - 1))
    ELSE t

\* str.strip()
Strip(t) == RStrip(LStrip(t))

\* str.replace(old, new) for single characters
Replace(t, old, new) == [k \in 1..Len(t) |-> IF t[k] = old THEN new ELSE t[k]]

\* ''.join(char for char in text if char.isprintable())
KeepPrintable(t) == SelectSeq(t, IsPrintable)

\* ocr_tool.clean_text
CleanTextPlain(t) == Strip(CollapseWs(t))

\* ocr_tool_anthropic.clean_text
CleanTextOcr(t) ==
    IF t = << >> THEN << >>
    ELSE Strip(KeepPrintable(
             Replace(Replace(Replace(CollapseWs(t), "|", "I"), "l", "1"),
                     "O", "0")))

clean_text(d, t) == IF d = "anthropic" THEN CleanTextOcr(t) ELSE CleanTextPlain(t)

\* every string over Chars of length at most n
TextsUpTo(n) == UNION {[1..m -> Chars] : m \in 0..n}

(***************************************************************************)
(* JSON / Python values.  None is Python's None (JSON null).               *)
(***************************************************************************)
None == [k |-> "None"]
Str(s) == [k |-> "str", s |-> s]
Num(n) == [k |-> "num", n |-> n]
List(items) == [k |-> "list", items |-> items]
Dict(d) == [k |-> "dict", d |-> d]

EmptyDict == [x \in {} |-> None]

\* bool(v): Python truthiness
Truthy(v) ==
    CASE v.k = "None" -> FALSE
      [] v.k = "str"  -> v.s # ""
      [] v.k = "num"  -> v.n # 0
      [] v.k = "list" -> v.items # << >>
      [] v.k = "dict" -> DOMAIN v.d # {}

\* d.get(key)
Get(d, key) == IF key \in DOMAIN d THEN d[key] ELSE None

\* d[key] = v
Put(d, key, v) == [x \in DOMAIN d \cup {key} |-> IF x = key THEN v ELSE d[x]]

(***************************************************************************)
(* dateutil.parser.parse(date_str, dayfirst=True, fuzzy=True) followed by  *)
(* strftime("%Y-%m-%d").  The lexer is given for the strings the model     *)
(* feeds it: the numeric tokens of the string, in order; fuzzy parsing     *)
(* skips every other token.                                                *)
(***************************************************************************)
NumTokens(s) ==
    CASE s = "15/03/2024" -> << 15, 3, 2024 >>
      [] s = "2024-03-15" -> << 2024, 3, 15 >>
      [] s = "01.02.2023" -> << 1, 2, 2023 >>
      [] s = "31/02/2024" -> << 31, 2, 2024 >>
      [] OTHER            -> << >>     \* "none", "None", "sometime soon", ...

\* str.lower() on the strings the model feeds it
Lower(s) == IF s = "None" THEN "none" ELSE s

IsLeap(y) == (y % 4 = 0 /\ y % 100 # 0) \/ y % 400 = 0

DaysIn(y, m) ==
    IF m = 2 THEN (IF IsLeap(y) THEN 29 ELSE 28)
    ELSE IF m \in {4, 6, 9, 11} THEN 30 ELSE 31

IsDate(y, m, d) == m \in 1..12 /\ d \in 1..DaysIn(y, m)

\* dateutil's _ymd.resolve_ymd for three numeric tokens, dayfirst=True,
\* yearfirst=False
ResolveYmd(t) ==
    IF t[1] > 31
    THEN IF t[3] <= 12 THEN [y |-> t[1], d |-> t[2], m |-> t[3]]
                       ELSE [y |-> t[1], m |-> t[2], d |-> t[3]]
    ELSE IF t[1] > 12 \/ t[2] <= 12
         THEN [d |-> t[1], m |-> t[2], y |-> t[3]]
         ELSE [m |-> t[1], d |-> t[2], y |-> t[3]]

\* parse_date raises (ParserError / ValueError) exactly when this is FALSE
Parses(s) ==
    /\ Len(NumTokens(s)) = 3
    /\ LET r == ResolveYmd(NumTokens(s)) IN IsDate(r.y, r.m, r.d)

Pad2(n) == IF n < 10 THEN "0" \o ToString(n) ELSE ToString(n)

\* date_obj.strftime("%Y-%m-%d")
Strftime(y, m, d) == ToString(y) \o "-" \o Pad2(m) \o "-" \o Pad2(d)

ParseAndFormat(s) ==
    LET r == ResolveYmd(NumTokens(s)) IN Strftime(r.y, r.m, r.d)

\* ocr_tool_anthropic.standardize_date: the value returned, or the
\* exception that leaves the function (str.lower on a non-string)
StandardizeDateAnthropic(v) ==
    IF ~Truthy(v) THEN [raised |-> FALSE, value |-> None]
    ELSE IF v.k # "str" THEN [raised |-> TRUE, value |-> None]
    ELSE IF Lower(v.s) \in {"none", "null", ""}
         THEN [raised |-> FALSE, value |-> None]
    ELSE IF Parses(v.s)
         THEN [raised |-> FALSE, value |-> Str(ParseAndFormat(v.s))]
         ELSE [raised |-> FALSE, value |-> None]

\* ocr_tool.standardize_date: every exception is caught inside
StandardizeDateOpenAI(v) ==
    IF Truthy(v) /\ v.k = "str" /\ Parses(v.s)
    THEN Str(ParseAndFormat(v.s))
    ELSE Str("none")

date_fields == {"dateInvoiced", "dateOfReceiving", "datePaid", "dueDate"}

(***************************************************************************)
(* State the pipeline specification starts from; the two studies of pure   *)
(* functions leave it untouched.                                           *)
(***************************************************************************)
PipelineIdle ==
    /\ ANTHROPIC_API_KEY = TRUE
    /\ paths_list = << >>
    /\ i = 1
    /\ mime_type = ""
    /\ text = << >>
    /\ final_data = EmptyDict
    /\ result = << >>
    /\ origin = << >>
    /\ outcome = << >>
    /\ sent = << >>
    /\ returned = << >>
    /\ exc = "none"
    /\ log = << >>
    /\ payload_list = << >>
    /\ j = 1
    /\ paths_for_invoice = None
    /\ submitted = << >>

TextIdle == raw_text = << >> /\ once = << >> /\ twice = << >>

PdfIdle == pdf = << >> /\ page_num = 1 /\ pdf_text = << >>

\* the value of a result variable before its function has returned
NotReturned == [k |-> "NotReturned"]

MailIdle ==
    /\ search_status = "OK"
    /\ inbox = << >>
    /\ num = 1
    /\ message = None
    /\ flagged = {}
    /\ expunged = {}
    /\ disk = {}
    /\ file_paths = NotReturned

CompanyIdle ==
    /\ companies = << >>
    /\ name = None
    /\ sic = None
    /\ dic = None
    /\ company_idx = 1
    /\ company = NotReturned

(***************************************************************************)
(* clean_text applied once and twice to every short string.                *)
(***************************************************************************)
InitText ==
    /\ driver \in Drivers
    /\ pc = "clean_in"
    /\ raw_text \in TextsUpTo(MaxTextLen)
    /\ once = << >>
    /\ twice = << >>
    /\ PipelineIdle
    /\ PdfIdle
    /\ MailIdle
    /\ CompanyIdle

CleanOnce ==
    /\ pc = "clean_in"
    /\ once' = clean_text(driver, raw_text)
    /\ pc' = "clean_once"
    /\ UNCHANGED << driver, raw_text, twice, pipelineVars, pdfVars,
                    mailVars, companyVars >>

CleanTwice ==
    /\ pc = "clean_once"
    /\ twice' = clean_text(driver, once)
    /\ pc' = "clean_twice"
    /\ UNCHANGED << driver, raw_text, once, pipelineVars, pdfVars,
                    mailVars, companyVars >>

NextText == CleanOnce \/ CleanTwice

SpecText == InitText /\ [][NextText]_vars

(***************************************************************************)
(* extract_text_from_pdf, page by page.  A page is what pdfplumber and     *)
(* tesseract give for it: page.extract_text() (None when has_text is       *)
(* FALSE) and pytesseract.image_to_string of its rendering (or a raise).   *)
(***************************************************************************)
MinPageTextLen == 50

Rep(c, n) == [x \in 1..n |-> c]

Invoice100 == << "I", "n", "v", "o", "i", "c", "e", " ", "#", "1", "0", "0" >>

PageTexts ==
    { << >>, Invoice100, Rep("x", MinPageTextLen), Rep("x", MinPageTextLen + 1),
      << " " >> \o Rep("x", MinPageTextLen) \o << "\n" >> }

OcrOutputs == { << "T", "O", "T", "A", "l" >>, << "|", "N", "V", " ", " ", "2" >> }

Pages ==
    LET texts == [has_text : {TRUE}, page_text : PageTexts]
                   \cup {[has_text |-> FALSE, page_text |-> << >>]}
        ocrs  == [fails : {FALSE}, out : OcrOutputs]
                   \cup {[fails |-> TRUE, out |-> << >>]}
    IN  {[has_text |-> t.has_text, page_text |-> t.page_text, ocr |-> o] :
            t \in texts, o \in ocrs}

\* a page test without the minimum length
AcceptsEmbeddedAnyText(d, page) == page.has_text /\ page.page_text # << >>

\* the condition under which a page's embedded text is taken:
\* ocr_tool: `if page_text`; ocr_tool_anthropic:
\* `if page_text and len(page_text.strip()) > 50`
AcceptsEmbedded(d, page) ==
    /\ page.has_text
    /\ page.page_text # << >>
    /\ d = "anthropic" => Len(Strip(page.page_text)) > MinPageTextLen

\* what the OCR branch appends before the newline
OcrAppended(d, page) ==
    IF d = "anthropic" THEN CleanTextOcr(page.ocr.out) ELSE page.ocr.out

InitPdf ==
    /\ driver \in Drivers
    /\ pc = "pdf_loop"
    /\ pdf \in UNION {[1..n -> Pages] : n \in 0..MaxPages}
    /\ page_num = 1
    /\ pdf_text = << >>
    /\ PipelineIdle
    /\ TextIdle
    /\ MailIdle
    /\ CompanyIdle

PdfPageText ==
    /\ pc = "pdf_loop"
    /\ page_num <= Len(pdf)
    /\ AcceptsEmbedded(driver, pdf[page_num])
    /\ pdf_text' = pdf_text \o pdf[page_num].page_text \o << "\n" >>
    /\ page_num' = page_num + 1
    /\ UNCHANGED << driver, pc, pdf, pipelineVars, textVars,
                    mailVars, companyVars >>

PdfPageOcr ==
    /\ pc = "pdf_loop"
    /\ page_num <= Len(pdf)
    /\ ~AcceptsEmbedded(driver, pdf[page_num])
    /\ ~pdf[page_num].ocr.fails
    /\ pdf_text' = pdf_text \o OcrAppended(driver, pdf[page_num]) \o << "\n" >>
    /\ page_num' = page_num + 1
    /\ UNCHANGED << driver, pc, pdf, pipelineVars, textVars,
                    mailVars, companyVars >>

\* rendering or OCR raises: the exception leaves extract_text_from_pdf
\* (ocr_tool_anthropic logs it and re-raises)
PdfPageOcrRaise ==
    /\ pc = "pdf_loop"
    /\ page_num <= Len(pdf)
    /\ ~AcceptsEmbedded(driver, pdf[page_num])
    /\ pdf[page_num].ocr.fails
    /\ pc' = "pdf_raised"
    /\ UNCHANGED << driver, pdfVars, pipelineVars, textVars,
                    mailVars, companyVars >>

PdfReturn ==
    /\ pc = "pdf_loop"
    /\ page_num > Len(pdf)
    /\ pc' = "pdf_done"
    /\ UNCHANGED << driver, pdfVars, pipelineVars, textVars,
                    mailVars, companyVars >>

NextPdf == PdfPageText \/ PdfPageOcr \/ PdfPageOcrRaise \/ PdfReturn

SpecPdf == InitPdf /\ [][NextPdf]_vars

(***************************************************************************)
(* Claims about the pure functions.                                        *)
(***************************************************************************)

\* C9: text normalization is idempotent, for both variants:
\* clean_text(clean_text(x)) = clean_text(x) for every input string x.
C9_CleanTextIdempotent == pc = "clean_twice" => twice = once

\* C9, the case the claim is about: the stricter variant has cleaned a
\* string holding whitespace, a confusable and a non-printable character.
C9_Witness ==
    /\ pc = "clean_twice"
    /\ driver = "anthropic"
    /\ {" ", "|", NUL} \subseteq {raw_text[n] : n \in 1..Len(raw_text)}

\* what a page contributes according to the code of each variant
PageLine(d, page) ==
    IF d = "openai"
    THEN IF page.has_text /\ page.page_text # << >>
         THEN page.page_text ELSE page.ocr.out
    ELSE IF page.has_text /\ Len(Strip(page.page_text)) > MinPageTextLen
         THEN page.page_text ELSE CleanTextOcr(page.ocr.out)

\* what a page contributes according to the claim as stated
PageLineAsClaimed(page) ==
    IF page.has_text /\ page.page_text # << >>
    THEN page.page_text ELSE page.ocr.out

RECURSIVE JoinLines(_, _)
\* the lines joined with sep between consecutive lines
JoinLines(lines, sep) ==
    IF lines = << >> THEN << >>
    ELSE IF Len(lines) = 1 THEN lines[1]
    ELSE lines[1] \o sep \o JoinLines(Tail(lines), sep)

\* C10 as amended: the transcript is, in page order, each page's
\* contribution followed by a newline, where a page contributes its embedded
\* text when it has any (ocr_tool) or when its stripped length exceeds 50
\* characters (ocr_tool_anthropic), and otherwise the OCR output of its
\* rendering, passed through clean_text in ocr_tool_anthropic.
C10_TranscriptPerVariant ==
    pc \in {"pdf_loop", "pdf_done"} =>
        LET done == SubSeq(pdf, 1, page_num - 1)
            lines == [n \in 1..Len(done) |-> PageLine(driver, done[n]) \o << "\n" >>]
        IN  /\ pdf_text = JoinLines(lines, << >>)
            /\ pc = "pdf_done" => page_num = Len(pdf) + 1

\* C10, the case the claim is about: the two-page document of scenario A
\* read to its end by the variant main.py runs.
C10_Witness ==
    /\ pc = "pdf_done"
    /\ driver = "anthropic"
    /\ Len(pdf) = 2
    /\ pdf[1].has_text /\ pdf[1].page_text = Invoice100
    /\ ~pdf[2].has_text

\* C10 as stated: the transcript is the per-page texts joined by newlines
\* (a trailing newline allowed), a page giving its embedded text when it has
\* any and its OCR output otherwise.
C10_TranscriptAsClaimed ==
    pc = "pdf_done" =>
        LET lines == [n \in 1..Len(pdf) |-> PageLineAsClaimed(pdf[n])]
            joined == JoinLines(lines, << "\n" >>)
        IN  pdf_text \in {joined, joined \o << "\n" >>}

(***************************************************************************)
(* The pipeline: get_payload of either driver, then main.set_invoice on    *)
(* what ocr_tool_anthropic.get_payload returned.                           *)
(***************************************************************************)
\* the path get_paths saves the n-th attachment under
PathOf(n) == "attachments/" \o ToString(100 + n) \o "_invoice"

InputLists == {[n \in 1..m |-> PathOf(n)] : m \in 0..MaxDocs}

MimeTypes == {"application/pdf", "image/png", "text/plain"}

\* mime_type.split("/")
SplitMime(m) ==
    CASE m = "application/pdf" -> << "application", "pdf" >>
      [] m = "image/png"       -> << "image", "png" >>
      [] m = "text/plain"      -> << "text", "plain" >>

FileType(m) == SplitMime(m)[1]
FileFormat(m) == SplitMime(m)[2]

\* a branch that would also take text/* documents
SupportedOrText(m) ==
    FileFormat(m) = "pdf" \/ FileType(m) \in {"image", "text"}

\* the branch on the MIME type that both drivers share
Supported(m) == FileFormat(m) = "pdf" \/ FileType(m) = "image"

\* transcripts acquisition can produce: empty, whitespace only, some text
Transcripts == { << >>, << " ", "\n" >>, << "a" >> }

\* the test that skips a document without usable text:
\* ocr_tool_anthropic `if not text.strip()`, ocr_tool `if not text`
NoText(d, t) == IF d = "anthropic" THEN Strip(t) = << >> ELSE t = << >>

(***************************************************************************)
(* The objects the backend's JSON can parse to.                            *)
(***************************************************************************)
Base == [x \in {"name", "currency"} |->
            IF x = "name" THEN Str("ACME") ELSE Str("EUR")]

Item(q) == Dict([x \in {"quantity", "unitPrice", "taxRate"} |->
                    IF x = "quantity" THEN q
                    ELSE IF x = "unitPrice" THEN Num(125) ELSE Num(21)])

BackendPath == Str("attachments/from_backend")

RawObjects ==
    { Base,
      \* scenario D of the specification
      Put(Put(Put(Base, "paymentMethod", Str("cash")),
                "dateInvoiced", Str("none")), "dueDate", Str("15/03/2024")),
      Put(Put(Base, "paymentMethod", None), "datePaid", Str("sometime soon")),
      Put(Base, "dateOfReceiving", Num(20240315)),
      Put(Base, "dates",
           Dict([x \in {"dueDate", "dateInvoiced"} |->
                   IF x = "dueDate" THEN Str("15/03/2024") ELSE Str("None")])),
      Put(Base, "dates", Dict([x \in {"dueDate"} |-> Num(20240315)])),
      Put(Base, "dates", List(<< Str("15/03/2024") >>)),
      \* objects that themselves carry a "path" key
      Put(Base, "path", BackendPath),
      Put(Put(Base, "path", BackendPath), "paymentMethod", None),
      Put(Put(Put(Base, "path", BackendPath), "paymentMethod", Str("none")),
           "dueDate", Str("2024-03-15")),
      Put(Put(Put(Base, "path", BackendPath), "paymentMethod", Str("cash")),
           "invoiceItems", List(<< Item(Num(3)), Item(Str("none")) >>)) }

(***************************************************************************)
(* Field normalization inside get_payload.                                 *)
(***************************************************************************)
\* ocr_tool_anthropic.get_payload, the loop over final_data["dates"]:
\* TRUE when it raises (iterating or indexing a non-object, or
\* standardize_date raising on a non-string)
DatesLoopRaises(fd) ==
    /\ "dates" \in DOMAIN fd
    /\ LET ds == fd["dates"] IN
         CASE ds.k = "dict" ->
                \E f \in DOMAIN ds.d : StandardizeDateAnthropic(ds.d[f]).raised
           [] ds.k = "list" -> ds.items # << >>
           [] ds.k = "str"  -> ds.s # ""
           [] OTHER         -> TRUE

\* ocr_tool_anthropic.get_payload: the record appended for a parsed object
RecordAnthropic(fd, file_path, mime) ==
    LET dated ==
            IF "dates" \in DOMAIN fd /\ fd["dates"].k = "dict"
            THEN Put(fd, "dates",
                     Dict([f \in DOMAIN fd["dates"].d |->
                             StandardizeDateAnthropic(fd["dates"].d[f]).value]))
            ELSE fd
        source ==
            [x \in {"path", "mime_type", "extraction_method"} |->
                CASE x = "path" -> Str(file_path)
                  [] x = "mime_type" -> Str(mime)
                  [] x = "extraction_method" ->
                        IF FileType(mime) = "image" THEN Str("ocr") ELSE Str("text")]
    IN  Put(dated, "_source", Dict(source))

\* ocr_tool.get_payload: the record appended for a parsed object
RecordOpenAI(fd, file_path) ==
    LET dated == [x \in DOMAIN fd \cup date_fields |->
                    IF x \in date_fields
                    THEN StandardizeDateOpenAI(Get(fd, x))
                    ELSE fd[x]]
    IN  Put(dated, "path", Str(file_path))

NormalizeRaises(d, fd) == d = "anthropic" /\ DatesLoopRaises(fd)

Record(d, fd, file_path, mime) ==
    IF d = "anthropic" THEN RecordAnthropic(fd, file_path, mime)
    ELSE RecordOpenAI(fd, file_path)

\* a result list built in the wrong order
PrependRecord(res, rec) == << rec >> \o res

\* result.append(final_data)
AppendRecord(res, rec) == Append(res, rec)

\* a loop body without its exception handlers
OnExceptionUnhandled(d) == "raised"

\* where control goes when an exception is raised inside the loop body:
\* ocr_tool_anthropic catches it (except ValueError / except Exception) and
\* goes on with the next document; ocr_tool has no handler, so it leaves
\* get_payload
OnException(d) == IF d = "anthropic" THEN "loop" ELSE "raised"

(***************************************************************************)
(* get_payload.                                                            *)
(***************************************************************************)
Init ==
    /\ driver \in Drivers
    /\ ANTHROPIC_API_KEY \in BOOLEAN
    /\ paths_list \in InputLists
    /\ pc = "get_payload"
    /\ i = 1
    /\ mime_type = ""
    /\ text = << >>
    /\ final_data = EmptyDict
    /\ result = << >>
    /\ origin = << >>
    /\ outcome = << >>
    /\ sent = << >>
    /\ returned = << >>
    /\ exc = "none"
    /\ log = << >>
    /\ payload_list = << >>
    /\ j = 1
    /\ paths_for_invoice = None
    /\ submitted = << >>
    /\ TextIdle
    /\ PdfIdle
    /\ MailIdle
    /\ CompanyIdle

setInvoiceVars == << payload_list, j, paths_for_invoice, submitted >>

\* an exception raised in the loop body for document i
DocumentRaises(kind, e) ==
    /\ outcome' = Append(outcome, kind)
    /\ pc' = OnException(driver)
    /\ IF OnException(driver) = "loop"
       THEN i' = i + 1 /\ exc' = exc
       ELSE i' = i /\ exc' = e
    /\ mime_type' = ""
    /\ text' = << >>
    /\ final_data' = EmptyDict
    /\ log' = IF OnException(driver) = "loop"
              THEN Append(log, [doc |-> i, kind |-> kind])
              ELSE log
    /\ UNCHANGED << driver, ANTHROPIC_API_KEY, paths_list, result, origin,
                    returned, setInvoiceVars, textVars, pdfVars,
                    mailVars, companyVars >>

\* a document skipped by a logged `continue` or a logged else-branch
DocumentSkipped(kind) ==
    /\ outcome' = Append(outcome, kind)
    /\ pc' = "loop"
    /\ i' = i + 1
    /\ mime_type' = ""
    /\ text' = << >>
    /\ final_data' = EmptyDict
    /\ log' = Append(log, [doc |-> i, kind |-> kind])
    /\ UNCHANGED << driver, ANTHROPIC_API_KEY, paths_list, result, origin,
                    returned, exc, setInvoiceVars, textVars, pdfVars,
                    mailVars, companyVars >>

\* ocr_tool_anthropic.get_payload refuses to run without an API key
NoApiKey ==
    /\ pc = "get_payload"
    /\ driver = "anthropic"
    /\ ~ANTHROPIC_API_KEY
    /\ pc' = "raised"
    /\ exc' = "ValueError"
    /\ UNCHANGED << driver, ANTHROPIC_API_KEY, paths_list, log, i, mime_type, text,
                    final_data, result, origin, outcome, sent, returned,
                    setInvoiceVars, textVars, pdfVars,
                    mailVars, companyVars >>

\* result = []; the for loop is entered
Start ==
    /\ pc = "get_payload"
    /\ driver = "anthropic" => ANTHROPIC_API_KEY
    /\ pc' = "loop"
    /\ result' = << >>
    /\ UNCHANGED << driver, ANTHROPIC_API_KEY, paths_list, log, i, mime_type, text,
                    final_data, origin, outcome, sent, returned, exc,
                    setInvoiceVars, textVars, pdfVars,
                    mailVars, companyVars >>

\* MIME detection, PDF decoding, image loading or OCR raises
AcquireRaises ==
    /\ pc = "loop"
    /\ i <= Len(paths_list)
    /\ DocumentRaises("acquisition_error", "Exception")
    /\ UNCHANGED sent

\* the MIME type is neither PDF nor image/*
Unsupported ==
    /\ pc = "loop"
    /\ i <= Len(paths_list)
    /\ \E m \in MimeTypes : ~Supported(m)
    /\ DocumentSkipped("unsupported")
    /\ UNCHANGED sent

\* acquisition returned no usable text
EmptyText ==
    /\ pc = "loop"
    /\ i <= Len(paths_list)
    /\ \E m \in MimeTypes, t \in Transcripts : Supported(m) /\ NoText(driver, t)
    /\ DocumentSkipped("no_text")
    /\ UNCHANGED sent

\* acquisition returned a transcript
Acquire ==
    /\ pc = "loop"
    /\ i <= Len(paths_list)
    /\ \E m \in MimeTypes, t \in Transcripts :
          /\ Supported(m)
          /\ ~NoText(driver, t)
          /\ mime_type' = m
          /\ text' = t
    /\ pc' = "acquired"
    /\ UNCHANGED << driver, ANTHROPIC_API_KEY, paths_list, log, i, final_data,
                    result, origin, outcome, sent, returned, exc,
                    setInvoiceVars, textVars, pdfVars,
                    mailVars, companyVars >>

\* the request to the backend raises (connection error, API error)
BackendRaises ==
    /\ pc = "acquired"
    /\ sent' = Append(sent, i)
    /\ DocumentRaises("api_failure", "Exception")

\* the backend answers without success: ocr_tool status_code != 200,
\* ocr_tool_anthropic a response without 'completion'; logged, no record
BackendRefuses ==
    /\ pc = "acquired"
    /\ sent' = Append(sent, i)
    /\ DocumentSkipped("api_failure")

\* an answer without a structured call that would still leave a record
NoStructuredCallAppends ==
    /\ pc = "acquired"
    /\ sent' = Append(sent, i)
    /\ result' = AppendRecord(result,
                     Record(driver, EmptyDict, paths_list[i], mime_type))
    /\ origin' = Append(origin, i)
    /\ outcome' = Append(outcome, "no_structured_call")
    /\ log' = Append(log, [doc |-> i, kind |-> "no_structured_call"])
    /\ pc' = "loop"
    /\ i' = i + 1
    /\ mime_type' = ""
    /\ text' = << >>
    /\ final_data' = EmptyDict
    /\ UNCHANGED << driver, ANTHROPIC_API_KEY, paths_list, returned, exc,
                    setInvoiceVars, textVars, pdfVars, mailVars, companyVars >>

\* the answer holds no structured call: ocr_tool no function_call in the
\* assistant message, ocr_tool_anthropic no {...} in the completion
NoStructuredCall ==
    /\ pc = "acquired"
    /\ sent' = Append(sent, i)
    /\ DocumentSkipped("no_structured_call")

\* json.loads raises on the arguments / on the matched text
BadJson ==
    /\ pc = "acquired"
    /\ sent' = Append(sent, i)
    /\ DocumentRaises("bad_json", "JSONDecodeError")

\* json.loads returns an object
Parsed ==
    /\ pc = "acquired"
    /\ sent' = Append(sent, i)
    /\ \E fd \in RawObjects : final_data' = fd
    /\ pc' = "parsed"
    /\ UNCHANGED << driver, ANTHROPIC_API_KEY, paths_list, log, i, mime_type, text,
                    result, origin, outcome, returned, exc,
                    setInvoiceVars, textVars, pdfVars,
                    mailVars, companyVars >>

\* date normalization raises
NormalizeRaise ==
    /\ pc = "parsed"
    /\ NormalizeRaises(driver, final_data)
    /\ DocumentRaises("normalization_error", "TypeError")
    /\ UNCHANGED sent

\* date normalization, source tagging and result.append
NormalizeAppend ==
    /\ pc = "parsed"
    /\ ~NormalizeRaises(driver, final_data)
    /\ result' = AppendRecord(result,
                     Record(driver, final_data, paths_list[i], mime_type))
    /\ origin' = Append(origin, i)
    /\ outcome' = Append(outcome, "record")
    /\ pc' = "loop"
    /\ i' = i + 1
    /\ mime_type' = ""
    /\ text' = << >>
    /\ final_data' = EmptyDict
    /\ UNCHANGED << driver, ANTHROPIC_API_KEY, paths_list, log, sent, returned, exc,
                    setInvoiceVars, textVars, pdfVars,
                    mailVars, companyVars >>

\* a `return result` indented into the loop body: it leaves after the
\* first document
ReturnInsideLoop ==
    /\ pc = "loop"
    /\ i > 1 \/ i > Len(paths_list)
    /\ returned' = result
    /\ pc' = "returned"
    /\ UNCHANGED << driver, ANTHROPIC_API_KEY, paths_list, log, i, mime_type,
                    text, final_data, result, origin, outcome, sent, exc,
                    setInvoiceVars, textVars, pdfVars, mailVars, companyVars >>

\* return result
Return ==
    /\ pc = "loop"
    /\ i > Len(paths_list)
    /\ returned' = result
    /\ pc' = "returned"
    /\ UNCHANGED << driver, ANTHROPIC_API_KEY, paths_list, log, i, mime_type, text,
                    final_data, result, origin, outcome, sent, exc,
                    setInvoiceVars, textVars, pdfVars,
                    mailVars, companyVars >>

(***************************************************************************)
(* main.set_invoice, run on what ocr_tool_anthropic.get_payload returned.  *)
(***************************************************************************)
getPayloadVars == << ANTHROPIC_API_KEY, paths_list, i, mime_type, text,
                     final_data, result, origin, outcome, sent, returned,
                     log >>

\* the loop over payload.items(): "none" becomes None, then a None
\* paymentMethod becomes "draft"; only keys the dict holds are visited
StripSentinels(payload) ==
    [key \in DOMAIN payload |->
        LET v == IF payload[key] = Str("none") THEN None ELSE payload[key]
        IN  IF key = "paymentMethod" /\ v = None THEN Str("draft") ELSE v]

\* payload_list = get_payload(paths)
SetInvoiceBegin ==
    /\ pc = "returned"
    /\ driver = "anthropic"
    /\ payload_list' = returned
    /\ j' = 1
    /\ pc' = "strip"
    /\ UNCHANGED << driver, getPayloadVars, exc, paths_for_invoice, submitted,
                    textVars, pdfVars,
                    mailVars, companyVars >>

\* the sentinel loop on payload j
SentinelLoop ==
    /\ pc = "strip"
    /\ j <= Len(payload_list)
    /\ payload_list' = [payload_list EXCEPT ![j] = StripSentinels(@)]
    /\ pc' = "read_path"
    /\ UNCHANGED << driver, getPayloadVars, exc, j, paths_for_invoice,
                    submitted, textVars, pdfVars,
                    mailVars, companyVars >>

\* paths_for_invoice = payload["path"]
ReadPath ==
    /\ pc = "read_path"
    /\ "path" \in DOMAIN payload_list[j]
    /\ paths_for_invoice' = payload_list[j]["path"]
    /\ pc' = "create_invoice"
    /\ UNCHANGED << driver, getPayloadVars, exc, payload_list, j, submitted,
                    textVars, pdfVars,
                    mailVars, companyVars >>

\* payload["path"] on a dict without that key: KeyError leaves set_invoice
ReadPathKeyError ==
    /\ pc = "read_path"
    /\ "path" \notin DOMAIN payload_list[j]
    /\ pc' = "set_invoice_raised"
    /\ exc' = "KeyError"
    /\ UNCHANGED << driver, getPayloadVars, setInvoiceVars, textVars, pdfVars,
                    mailVars, companyVars >>

\* create_invoice(payload) returns the invoice id
CreateInvoice ==
    /\ pc = "create_invoice"
    /\ submitted' = Append(submitted, payload_list[j])
    /\ pc' = "attach"
    /\ UNCHANGED << driver, getPayloadVars, exc, payload_list, j,
                    paths_for_invoice, textVars, pdfVars,
                    mailVars, companyVars >>

\* create_invoice(payload) raises (CRM error, missing invoiceItems)
CreateInvoiceRaises ==
    /\ pc = "create_invoice"
    /\ submitted' = Append(submitted, payload_list[j])
    /\ pc' = "set_invoice_raised"
    /\ exc' = "EspoAPIError"
    /\ UNCHANGED << driver, getPayloadVars, payload_list, j,
                    paths_for_invoice, textVars, pdfVars,
                    mailVars, companyVars >>

\* create_attachment, relate_attachments, os.remove: on to the next payload
Attach ==
    /\ pc = "attach"
    /\ j' = j + 1
    /\ pc' = "strip"
    /\ UNCHANGED << driver, getPayloadVars, exc, payload_list,
                    paths_for_invoice, submitted, textVars, pdfVars,
                    mailVars, companyVars >>

\* create_attachment or relate_attachments raises (file missing, CRM error)
AttachRaises ==
    /\ pc = "attach"
    /\ pc' = "set_invoice_raised"
    /\ exc' = "OSError"
    /\ UNCHANGED << driver, getPayloadVars, setInvoiceVars, textVars, pdfVars,
                    mailVars, companyVars >>

\* the loop over payload_list is exhausted
SetInvoiceDone ==
    /\ pc = "strip"
    /\ j > Len(payload_list)
    /\ pc' = "done"
    /\ UNCHANGED << driver, getPayloadVars, exc, setInvoiceVars, textVars,
                    pdfVars,
                    mailVars, companyVars >>

Next ==
    \/ NoApiKey
    \/ Start
    \/ AcquireRaises
    \/ Unsupported
    \/ EmptyText
    \/ Acquire
    \/ BackendRaises
    \/ BackendRefuses
    \/ NoStructuredCall
    \/ BadJson
    \/ Parsed
    \/ NormalizeRaise
    \/ NormalizeAppend
    \/ Return
    \/ SetInvoiceBegin
    \/ SentinelLoop
    \/ ReadPath
    \/ ReadPathKeyError
    \/ CreateInvoice
    \/ CreateInvoiceRaises
    \/ Attach
    \/ AttachRaises
    \/ SetInvoiceDone

Spec == Init /\ [][Next]_vars

(***************************************************************************)
(* Claims about the pipeline.                                              *)
(***************************************************************************)
\* the path a record names as its source document
SourcePath(d, rec) ==
    IF d = "anthropic" THEN rec["_source"].d["path"] ELSE rec["path"]

\* the input indexes, in order, of the documents that yielded a record
RecordIndexes == SelectSeq([n \in 1..Len(outcome) |-> n],
                           LAMBDA n : outcome[n] = "record")

InLoop == pc \in {"loop", "acquired", "parsed"}
AfterReturn == pc \in {"returned", "strip", "read_path", "create_invoice",
                       "attach", "set_invoice_raised", "done"}

\* a failing document is left out, every other document is kept, and the
\* loop goes on to the end of the list
FailuresIsolated ==
    /\ InLoop => Len(outcome) = i - 1
    /\ AfterReturn => Len(outcome) = Len(paths_list) /\ returned = result
    /\ origin = RecordIndexes
    /\ Len(result) = Len(origin)

\* C1 as stated: in the Anthropic-backed driver every exception raised for
\* a document is caught inside the loop, the document is left out and the
\* loop continues, so get_payload always returns normally.
C1_AlwaysReturnsNormally ==
    driver = "anthropic" => pc # "raised" /\ FailuresIsolated

\* C1 as amended: in the Anthropic-backed driver every exception raised for
\* a document is caught inside the loop, the document is left out and the
\* loop continues; get_payload returns normally whenever ANTHROPIC_API_KEY
\* is set, and otherwise raises ValueError before the first document.
C1_ReturnsNormallyWithKey ==
    driver = "anthropic" =>
        /\ FailuresIsolated
        /\ pc = "raised" =>
              ~ANTHROPIC_API_KEY /\ exc = "ValueError" /\ outcome = << >>

\* C1, the case the claim is about: a document failed in acquisition, the
\* next one still produced its record, and get_payload returned.
C1_Witness ==
    /\ driver = "anthropic"
    /\ pc = "returned"
    /\ outcome = << "acquisition_error", "record" >>
    /\ Len(returned) = 1

\* C2: in the OpenAI-backed driver a document's exception is caught and the
\* records of all other documents are still returned.
C2_OpenAIKeepsOtherRecords ==
    (driver = "openai" /\ pc \in {"returned", "raised"}) =>
        \A n \in 1..Len(outcome) :
            outcome[n] = "record" =>
                \E m \in 1..Len(returned) :
                    SourcePath(driver, returned[m]) = Str(paths_list[n])

\* C3: every record the driver returns carries the path of its document,
\* and set_invoice can read that path from every record it processes.
C3_PathReadableBySetInvoice ==
    /\ \A n \in 1..Len(returned) :
          SourcePath(driver, returned[n]) = Str(paths_list[origin[n]])
    /\ ~(pc = "set_invoice_raised" /\ exc = "KeyError")
    /\ pc \in {"create_invoice", "attach"} =>
          paths_for_invoice = Str(paths_list[origin[j]])

\* a field that is absent once "none" counts as absent
AbsentIn(rec, key) == key \notin DOMAIN rec \/ rec[key] \in {None, Str("none")}

\* C4: in every record passed to create_invoice paymentMethod is never
\* absent; when the backend returned "none", null or no key for it, the
\* record has paymentMethod = "draft".
C4_PaymentMethodDefaulted ==
    \A n \in 1..Len(submitted) :
        /\ ~AbsentIn(submitted[n], "paymentMethod")
        /\ AbsentIn(returned[n], "paymentMethod") =>
              submitted[n]["paymentMethod"] = Str("draft")

\* C4, the case the claim is about: a record whose paymentMethod key the
\* backend omitted has been passed to create_invoice.
C4_Witness ==
    /\ Len(submitted) >= 1
    /\ "paymentMethod" \notin DOMAIN returned[1]

\* a canonical YYYY-MM-DD string of a valid calendar date
IsCanonical(s) ==
    \E y \in 2023..2024, m \in 1..12, d \in 1..31 :
        IsDate(y, m, d) /\ s = Strftime(y, m, d)

\* the payloads set_invoice has finished the sentinel loop on
Normalized ==
    IF pc = "strip" THEN SubSeq(payload_list, 1, j - 1)
    ELSE IF pc \in {"read_path", "create_invoice", "attach", "set_invoice_raised"}
         THEN SubSeq(payload_list, 1, j)
    ELSE IF pc = "done" THEN payload_list
    ELSE << >>

\* what the claim lets the backend return for a date field: a string
\* (a date in some format, the sentinel, other text), null, or no key
DateCaseOfClaim(raw, f) == f \in DOMAIN raw => raw[f].k \in {"str", "None"}

\* C5: in every record handed to submission each of the four date fields
\* is a canonical YYYY-MM-DD string or absent, whatever the backend
\* returned for it.  (For ocr_tool's own records the sentinel "none" is
\* counted as absent.)
C5_DatesCanonicalOrAbsent ==
    /\ \A n \in 1..Len(Normalized) : \A f \in date_fields :
          DateCaseOfClaim(returned[n], f) =>
              \/ f \notin DOMAIN Normalized[n]
              \/ Normalized[n][f] = None
              \/ Normalized[n][f].k = "str" /\ IsCanonical(Normalized[n][f].s)
    /\ driver = "openai" =>
          \A n \in 1..Len(result) : \A f \in date_fields :
              \/ AbsentIn(result[n], f)
              \/ result[n][f].k = "str" /\ IsCanonical(result[n][f].s)

\* the fields of the line items of a record
ItemValues(rec) ==
    IF "invoiceItems" \in DOMAIN rec /\ rec["invoiceItems"].k = "list"
    THEN UNION { IF it.k = "dict" THEN {it.d[f] : f \in DOMAIN it.d} ELSE {} :
                    it \in {rec["invoiceItems"].items[n] :
                              n \in 1..Len(rec["invoiceItems"].items)} }
    ELSE {}

\* C6: no field of a record passed to create_invoice, top-level or of a
\* line item, holds the sentinel string "none".
C6_NoSentinelLeft ==
    \A n \in 1..Len(submitted) :
        /\ \A key \in DOMAIN submitted[n] : submitted[n][key] # Str("none")
        /\ Str("none") \notin ItemValues(submitted[n])

\* C7: field normalization never fails: every parsed backend object yields
\* a record for its document.
C7_NormalizationNeverFails ==
    \A n \in 1..Len(outcome) : outcome[n] # "normalization_error"

RECURSIVE IsSubseq(_, _)
\* a is an order-preserving subsequence of b
IsSubseq(a, b) ==
    IF a = << >> THEN TRUE
    ELSE IF b = << >> THEN FALSE
    ELSE IF Head(a) = Head(b) THEN IsSubseq(Tail(a), Tail(b))
    ELSE IsSubseq(a, Tail(b))

\* C8: the list get_payload builds and returns is an order-preserving
\* subsequence of its input: records in the order of their documents, at
\* most one record per document.
C8_OrderPreservingSubsequence ==
    /\ Len(result) = Len(origin)
    /\ \A n \in 1..Len(result) :
          /\ origin[n] \in 1..Len(paths_list)
          /\ SourcePath(driver, result[n]) = Str(paths_list[origin[n]])
    /\ \A m, n \in 1..Len(origin) : m < n => origin[m] < origin[n]
    /\ IsSubseq([n \in 1..Len(result) |-> SourcePath(driver, result[n])],
                [n \in 1..Len(paths_list) |-> Str(paths_list[n])])
    /\ AfterReturn => returned = result

\* C8, the case the claim is about: two documents, both with a record,
\* returned.
C8_Witness ==
    /\ pc = "returned"
    /\ Len(paths_list) = 2
    /\ Len(returned) = 2

(***************************************************************************)
(* Claims about unsupported documents and answers without a structured     *)
(* call.                                                                   *)
(***************************************************************************)
\* the set of the elements of a sequence
Range(q) == {q[n] : n \in 1..Len(q)}

\* the claim's own reading of "PDF or image/*"
IsPdfOrImage(m) == m = "application/pdf" \/ FileType(m) = "image"

\* C11: a document whose detected MIME type is neither PDF nor image/* is
\* skipped as unsupported: a backend request is only ever prepared for a
\* document of a supported type, the unsupported document has no request
\* sent for it and no record in the output (its skip is logged), and the
\* loop goes on to the documents after it.
C11_UnsupportedSkipped ==
    /\ pc \in {"acquired", "parsed"} => IsPdfOrImage(mime_type)
    /\ driver = "anthropic" =>
          \A n \in 1..Len(result) :
              IsPdfOrImage(result[n]["_source"].d["mime_type"].s)
    /\ \A n \in 1..Len(outcome) :
          outcome[n] = "unsupported" =>
              /\ n \notin Range(sent)
              /\ n \notin Range(origin)
              /\ [doc |-> n, kind |-> "unsupported"] \in Range(log)
              /\ i > n
              /\ pc = "returned" =>
                    /\ Len(outcome) = Len(paths_list)
                    /\ Len(returned) =
                          Cardinality({k \in 1..Len(outcome) :
                                          outcome[k] = "record"})

\* C11, the case the claim is about: the first of two documents is of an
\* unsupported type, the second is processed and yields the only record.
C11_Witness ==
    /\ pc = "returned"
    /\ outcome = << "unsupported", "record" >>
    /\ sent = << 2 >>
    /\ Len(returned) = 1
    /\ SourcePath(driver, returned[1]) = Str(paths_list[2])

\* the number of documents visited so far with the given outcome
CountOutcome(kind) ==
    Cardinality({n \in 1..Len(outcome) : outcome[n] = kind})

\* C12: a document the backend answered without a structured call (no
\* function_call / no JSON object in the completion) leaves no record and
\* its failure is logged; a batch of N documents in which this is the only
\* failure returns exactly N-1 records.
C12_NoStructuredCallDropsOneRecord ==
    /\ \A n \in 1..Len(outcome) :
          outcome[n] = "no_structured_call" =>
              /\ n \in Range(sent)
              /\ n \notin Range(origin)
              /\ [doc |-> n, kind |-> "no_structured_call"] \in Range(log)
    /\ Len(result) = CountOutcome("record")
    /\ ( /\ pc = "returned"
         /\ CountOutcome("no_structured_call") = 1
         /\ CountOutcome("record") = Len(paths_list) - 1 )
       => /\ Len(returned) = Len(paths_list) - 1
          /\ Len(log) = 1

\* C12, the case the claim is about: two documents, the backend answers
\* the first without a structured call and the second with an object.
C12_Witness ==
    /\ pc = "returned"
    /\ outcome = << "no_structured_call", "record" >>
    /\ sent = << 1, 2 >>
    /\ Len(returned) = 1
    /\ SourcePath(driver, returned[1]) = Str(paths_list[2])

(***************************************************************************)
(* Claims about the order of the steps.                                    *)
(***************************************************************************)
\* a step of get_payload (acquisition, extraction, date normalization) has
\* begun for document d
StepsBegun(d) ==
    d <= Len(outcome) \/ (d = i /\ pc \in {"acquired", "parsed"})

\* get_payload is through with document d: a record or left out
GetPayloadStepsDone(d) == d <= Len(outcome)

\* set_invoice has run its sentinel loop (sentinel stripping and
\* paymentMethod defaulting) on the record of document d
SentinelStepDone(d) == \E n \in 1..Len(Normalized) : origin[n] = d

\* every step of the pipeline is over for document d
AllStepsDone(d) ==
    /\ GetPayloadStepsDone(d)
    /\ outcome[d] = "record" => SentinelStepDone(d)

InSetInvoice == pc \in {"strip", "read_path", "create_invoice", "attach",
                        "set_invoice_raised", "done"}

\* C13 as stated: processing is strictly sequential per document; every
\* step for document d (acquisition, extraction, date normalization,
\* sentinel stripping and paymentMethod defaulting) has completed before
\* any step for document d+1 begins.
C13_StrictlySequentialPerDocument ==
    driver = "anthropic" =>
        \A d \in 1..(Len(paths_list) - 1) :
            StepsBegun(d + 1) => AllStepsDone(d)

\* C13 as the code has it: two sequential passes.  In get_payload,
\* acquisition, extraction and date normalization of document d are over
\* before any of them begins for document d+1.  set_invoice starts only
\* after get_payload is through with every document, and then runs the
\* sentinel loop and the submission one record at a time, in document
\* order: record n+1 is untouched until record n has been submitted.
C13_SequentialInTwoPasses ==
    /\ \A d \in 1..(Len(paths_list) - 1) :
          StepsBegun(d + 1) => GetPayloadStepsDone(d)
    /\ InSetInvoice =>
          /\ driver = "anthropic"
          /\ \A d \in 1..Len(paths_list) : GetPayloadStepsDone(d)
          /\ Len(payload_list) = Len(origin)
          /\ \A m, n \in 1..Len(payload_list) :
                m < n => origin[m] < origin[n]
          /\ \A n \in 1..Len(payload_list) :
                n > Len(Normalized) => payload_list[n] = returned[n]
          /\ Len(submitted) <= Len(Normalized)
          /\ Len(Normalized) <= Len(submitted) + 1
    /\ ~InSetInvoice => payload_list = << >> /\ submitted = << >>

\* C13, the case the claim is about: two documents with a record each;
\* set_invoice has submitted the first record and is about to run the
\* sentinel loop on the second.
C13_Witness ==
    /\ pc = "strip"
    /\ j = 2
    /\ outcome = << "record", "record" >>
    /\ Len(submitted) = 1
    /\ Len(payload_list) = 2

(***************************************************************************)
(* main.get_message and main.get_paths: one poll of the mailbox.  A        *)
(* message is its number in the search result, whether it is multipart,    *)
(* and its parts; a part is its Content-Disposition and its filename       *)
(* ("" when get_filename() gives None).                                    *)
(***************************************************************************)
MinSalt == 100

\* values random.randint(100, 999) can give
Salts == {MinSalt, MinSalt + 1}

Parts ==
    {[disposition |-> "attachment", filename |-> f] :
        f \in {"", "a.pdf", "b.png"}}
    \cup {[disposition |-> "None", filename |-> ""]}

Messages ==
    {[multipart |-> TRUE, parts |-> q] :
        q \in UNION {[1..n -> Parts] : n \in 0..MaxParts}}
    \cup {[multipart |-> FALSE, parts |-> << >>]}

Inboxes ==
    UNION {{[n \in 1..m |-> [id |-> n, multipart |-> f[n].multipart,
                              parts |-> f[n].parts]] :
               f \in [1..m -> Messages]} : m \in 0..MaxMessages}

\* "attachment" in str(part.get("Content-Disposition")), and a filename
SavedPart(part) == part.disposition = "attachment" /\ part.filename # ""

\* os.path.normpath(os.path.join("attachments", f"{salt}_{filename}"))
FilePath(salt, filename) ==
    "attachments/" \o ToString(salt) \o "_" \o filename

\* get_paths(message): the paths written, in the order of message.walk()
WrittenPaths(msg, salts) ==
    IF msg.multipart
    THEN LET idx == SelectSeq([k \in 1..Len(msg.parts) |-> k],
                              LAMBDA k : SavedPart(msg.parts[k]))
         IN  [n \in 1..Len(idx) |->
                FilePath(salts[idx[n]], msg.parts[idx[n]].filename)]
    ELSE << >>

InitMail ==
    /\ driver = "anthropic"
    /\ pc = "get_message"
    /\ search_status \in {"OK", "NO"}
    /\ inbox \in Inboxes
    /\ num = 1
    /\ message = None
    /\ flagged = {}
    /\ expunged = {}
    /\ disk = {}
    /\ file_paths = NotReturned
    /\ PipelineIdle
    /\ TextIdle
    /\ PdfIdle
    /\ CompanyIdle

\* `if status == "OK" and messages[0]` is false: nothing is fetched
SearchWithoutMatch ==
    /\ pc = "get_message"
    /\ ~(search_status = "OK" /\ inbox # << >>)
    /\ pc' = "get_message_return"
    /\ UNCHANGED << driver, mailVars, pipelineVars, textVars, pdfVars,
                    companyVars >>

\* the loop over messages[0].split() is entered
SearchMatched ==
    /\ pc = "get_message"
    /\ search_status = "OK" /\ inbox # << >>
    /\ pc' = "fetch"
    /\ UNCHANGED << driver, mailVars, pipelineVars, textVars, pdfVars,
                    companyVars >>

\* mail.fetch answers OK: message is overwritten with this message, and
\* the message is flagged \Deleted
FetchOk ==
    /\ pc = "fetch"
    /\ num <= Len(inbox)
    /\ message' = inbox[num]
    /\ flagged' = flagged \cup {num}
    /\ num' = num + 1
    /\ UNCHANGED << driver, pc, search_status, inbox, expunged, disk,
                    file_paths, pipelineVars, textVars, pdfVars,
                    companyVars >>

\* mail.fetch answers something else: the message is left alone
FetchNotOk ==
    /\ pc = "fetch"
    /\ num <= Len(inbox)
    /\ num' = num + 1
    /\ UNCHANGED << driver, pc, search_status, inbox, message, flagged,
                    expunged, disk, file_paths, pipelineVars, textVars,
                    pdfVars, companyVars >>

\* mail.expunge() after the loop removes every flagged message
Expunge ==
    /\ pc = "fetch"
    /\ num > Len(inbox)
    /\ expunged' = flagged
    /\ pc' = "get_message_return"
    /\ UNCHANGED << driver, search_status, inbox, num, message, flagged,
                    disk, file_paths, pipelineVars, textVars, pdfVars,
                    companyVars >>

\* return get_paths(message): the attachments of `message` are written
GetPaths ==
    /\ pc = "get_message_return"
    /\ message # None
    /\ \E salts \in [1..Len(message.parts) -> Salts] :
          /\ file_paths' = List(WrittenPaths(message, salts))
          /\ disk' = disk \cup
                {[path |-> p, id |-> message.id] :
                    p \in {WrittenPaths(message, salts)[n] :
                              n \in 1..Len(WrittenPaths(message, salts))}}
    /\ pc' = "mail_done"
    /\ UNCHANGED << driver, search_status, inbox, num, message, flagged,
                    expunged, pipelineVars, textVars, pdfVars, companyVars >>

\* return None: no message was fetched
ReturnNoPaths ==
    /\ pc = "get_message_return"
    /\ message = None
    /\ file_paths' = None
    /\ pc' = "mail_done"
    /\ UNCHANGED << driver, search_status, inbox, num, message, flagged,
                    expunged, disk, pipelineVars, textVars, pdfVars,
                    companyVars >>

NextMail ==
    \/ SearchWithoutMatch
    \/ SearchMatched
    \/ FetchOk
    \/ FetchNotOk
    \/ Expunge
    \/ GetPaths
    \/ ReturnNoPaths

SpecMail == InitMail /\ [][NextMail]_vars

\* C14: no invoice email is lost by the mailbox step: when get_message
\* has returned, every attachment of every message it flagged \Deleted and
\* expunged has been saved under attachments/ and its path is in the list
\* get_message returned, however many messages the search matched.
C14_NoInvoiceEmailLost ==
    pc = "mail_done" =>
        \A n \in expunged :
            \A k \in 1..Len(inbox[n].parts) :
                (inbox[n].multipart /\ SavedPart(inbox[n].parts[k])) =>
                    /\ file_paths # None
                    /\ \E m \in 1..Len(file_paths.items), s \in Salts :
                          /\ file_paths.items[m] =
                                FilePath(s, inbox[n].parts[k].filename)
                          /\ [path |-> file_paths.items[m], id |-> n] \in disk

(***************************************************************************)
(* crm_request.get_company, as create_invoice calls it.  A name is a       *)
(* string over a small alphabet, held as Str of a sequence of characters;  *)
(* an identifier is None or a string.                                      *)
(***************************************************************************)
threshold == 80

\* str.lower() on the alphabet of the names
LowerText(t) == [n \in DOMAIN t |-> IF t[n] = "A" THEN "a" ELSE t[n]]

Max(a, b) == IF a >= b THEN a ELSE b

RECURSIVE Lcs(_, _)
\* length of the longest common subsequence
Lcs(a, b) ==
    IF a = << >> \/ b = << >> THEN 0
    ELSE IF Head(a) = Head(b) THEN 1 + Lcs(Tail(a), Tail(b))
    ELSE Max(Lcs(Tail(a), b), Lcs(a, Tail(b)))

\* rapidfuzz fuzz.ratio, as a pair << numerator, denominator >> of the
\* percentage 100 * 2 * lcs / (len(a) + len(b))
Ratio(a, b) ==
    IF Len(a) + Len(b) = 0 THEN << 100, 1 >>
    ELSE << 200 * Lcs(a, b), Len(a) + Len(b) >>

\* the windows of the longer string fuzz.partial_ratio aligns the shorter
\* one with: prefixes and suffixes shorter than it, and every substring
\* of its length
Windows(short, long) ==
    {SubSeq(long, 1, n) : n \in 1..(Len(short) - 1)}
    \cup {SubSeq(long, n, n + Len(short) - 1) :
             n \in 1..(Len(long) - Len(short) + 1)}
    \cup {SubSeq(long, n, Len(long)) :
             n \in (Len(long) - Len(short) + 2)..Len(long)}

\* fuzz.partial_ratio(a, b) >= t
PartialRatioAtLeast(a, b, t) ==
    LET short == IF Len(a) <= Len(b) THEN a ELSE b
        long  == IF Len(a) <= Len(b) THEN b ELSE a
    IN  IF short = << >> THEN long = << >> /\ t <= 100
        ELSE \E w \in Windows(short, long) :
                Ratio(short, w)[1] >= t * Ratio(short, w)[2]

\* similarity >= threshold, with similarity 0 for a falsy name
SimilarEnough(n, company_name) ==
    IF n # None /\ n.s # << >>
    THEN PartialRatioAtLeast(LowerText(n.s), LowerText(company_name.s),
                             threshold)
    ELSE 0 >= threshold

\* the condition of the `if` in the loop over the companies
Matches(c) ==
    \/ dic = c.dic
    \/ sic = c.sicCode
    \/ name = c.name
    \/ SimilarEnough(name, c.name)

InvoiceNames ==
    {None, Str(<< "a", "b" >>), Str(<< "A", "b" >>), Str(<< "a", "b", "x" >>),
     Str(<< "x", "y" >>)}
CompanyNames ==
    {Str(<< "a", "b" >>), Str(<< "a", "b", "c" >>), Str(<< "x", "y", "z" >>)}
InvoiceDics == {None, Str("CZ1"), Str("CZ2")}
CompanyDics == {None, Str("CZ1")}
SicCodes == {None, Str("S1")}

Accounts == [dic : CompanyDics, sicCode : SicCodes, name : CompanyNames]

CompanyLists ==
    UNION {{[n \in 1..m |-> [id |-> n, dic |-> f[n].dic,
                              sicCode |-> f[n].sicCode,
                              name |-> f[n].name]] :
               f \in [1..m -> Accounts]} : m \in 0..MaxCompanies}

InitCompany ==
    /\ driver = "anthropic"
    /\ pc = "get_company"
    /\ companies \in CompanyLists
    /\ name \in InvoiceNames
    /\ sic \in SicCodes
    /\ dic \in InvoiceDics
    /\ company_idx = 1
    /\ company = NotReturned
    /\ PipelineIdle
    /\ TextIdle
    /\ PdfIdle
    /\ MailIdle

\* the `if` holds for the company the loop is at: return company
CompanyMatches ==
    /\ pc = "get_company"
    /\ company_idx <= Len(companies)
    /\ Matches(companies[company_idx])
    /\ company' = companies[company_idx]
    /\ pc' = "company_returned"
    /\ UNCHANGED << driver, companies, name, sic, dic, company_idx,
                    pipelineVars, textVars, pdfVars, mailVars >>

\* the `if` fails: on to the next company
CompanyDiffers ==
    /\ pc = "get_company"
    /\ company_idx <= Len(companies)
    /\ ~Matches(companies[company_idx])
    /\ company_idx' = company_idx + 1
    /\ UNCHANGED << driver, pc, companies, name, sic, dic, company,
                    pipelineVars, textVars, pdfVars, mailVars >>

\* the loop is exhausted: return None
NoCompanyFound ==
    /\ pc = "get_company"
    /\ company_idx > Len(companies)
    /\ company' = None
    /\ pc' = "company_returned"
    /\ UNCHANGED << driver, companies, name, sic, dic, company_idx,
                    pipelineVars, textVars, pdfVars, mailVars >>

NextCompany == CompanyMatches \/ CompanyDiffers \/ NoCompanyFound

SpecCompany == InitCompany /\ [][NextCompany]_vars

\* the claim's reading of a match: on an identifier the invoice supplies
MatchesOnSupplied(c) ==
    \/ dic # None /\ dic = c.dic
    \/ sic # None /\ sic = c.sicCode
    \/ name # None /\ name = c.name
    \/ name # None /\ SimilarEnough(name, c.name)

\* C15: get_company returns a company only when it matches the invoice on
\* an identifier the invoice supplies (an equal non-absent DIC/VAT id, an
\* equal non-absent SIC code, an equal name, or a name similarity at or
\* above the threshold); an absent identifier never counts as a match, and
\* when no company matches the result is None.
C15_MatchOnSuppliedIdentifier ==
    pc = "company_returned" =>
        /\ company # None => MatchesOnSupplied(company)
        /\ (\A n \in 1..Len(companies) : ~MatchesOnSupplied(companies[n]))
              => company = None

====
